---- MODULE Spec2Model ----
(***************************************************************************)
(* A model of can_sim.py (src/main.py): the CSV trace reader, the single   *)
(* byte-scaling modify rule, the replay scheduler, the periodic generator, *)
(* the listener thread and the session's shutdown order.                   *)
(*                                                                         *)
(* Text is modelled as sequences of one-character strings, so that         *)
(* formatting and parsing are computed and not assumed.  Floats are        *)
(* modelled as exact decimals num/den (den a power of ten) or inf/nan; the *)
(* inputs are chosen so that the float products of the program are exact.  *)
(* The wall clock is an integer number of seconds.                         *)
(***************************************************************************)
EXTENDS Integers, Sequences, FiniteSets, TLC

(***************************************************************************)
(* Text primitives (Python str / bytes / int / float behaviour)            *)
(***************************************************************************)
HexUpper == <<"0","1","2","3","4","5","6","7","8","9","A","B","C","D","E","F">>
HexLower == <<"0","1","2","3","4","5","6","7","8","9","a","b","c","d","e","f">>

\* value of one digit character in the given base, -1 when it is no digit
DigitVal(c, base) ==
    IF \E i \in 1..base : HexUpper[i] = c \/ HexLower[i] = c
    THEN (CHOOSE i \in 1..base : HexUpper[i] = c \/ HexLower[i] = c) - 1
    ELSE -1

IsSpace(c) == c = " "

RECURSIVE LStrip(_)
LStrip(s) == IF s # <<>> /\ IsSpace(Head(s)) THEN LStrip(Tail(s)) ELSE s

RECURSIVE RStrip(_)
RStrip(s) ==
    IF s # <<>> /\ IsSpace(s[Len(s)]) THEN RStrip(SubSeq(s, 1, Len(s) - 1)) ELSE s

\* str.strip()
Strip(s) == RStrip(LStrip(s))

\* s.startswith(p)
StartsWith(s, p) == Len(s) >= Len(p) /\ SubSeq(s, 1, Len(p)) = p

\* str.split(sep) with a one-character separator: always at least one part
RECURSIVE SplitAcc(_, _, _)
SplitAcc(s, sep, cur) ==
    IF s = <<>> THEN <<cur>>
    ELSE IF Head(s) = sep THEN <<cur>> \o SplitAcc(Tail(s), sep, <<>>)
    ELSE SplitAcc(Tail(s), sep, Append(cur, Head(s)))

Split(s, sep) == SplitAcc(s, sep, <<>>)

\* sep.join(fields)
RECURSIVE Join(_, _)
Join(fields, sep) ==
    IF fields = <<>> THEN <<>>
    ELSE IF Len(fields) = 1 THEN fields[1]
    ELSE fields[1] \o <<sep>> \o Join(Tail(fields), sep)

Err == [ok |-> FALSE, val |-> 0]
Ok(v) == [ok |-> TRUE, val |-> v]

\* value of a non-empty all-digit string, most significant digit first
RECURSIVE DigitsValue(_, _, _)
DigitsValue(s, base, acc) ==
    IF s = <<>> THEN acc
    ELSE DigitsValue(Tail(s), base, acc * base + DigitVal(Head(s), base))

AllDigits(s, base) == s # <<>> /\ \A i \in 1..Len(s) : DigitVal(s[i], base) >= 0

\* int(s, base): surrounding blanks, an optional sign, for base 16 an
\* optional 0x prefix, then at least one digit; anything else raises ValueError
ParseInt(str, base) ==
    LET s0 == Strip(str)
        neg == s0 # <<>> /\ Head(s0) = "-"
        s1 == IF s0 # <<>> /\ Head(s0) \in {"-", "+"} THEN Tail(s0) ELSE s0
        s2 == IF base = 16 /\ (StartsWith(s1, <<"0","x">>) \/ StartsWith(s1, <<"0","X">>))
              THEN SubSeq(s1, 3, Len(s1)) ELSE s1
    IN IF AllDigits(s2, base)
       THEN Ok(IF neg THEN 0 - DigitsValue(s2, base, 0) ELSE DigitsValue(s2, base, 0))
       ELSE Err

RECURSIVE Pow10(_)
Pow10(k) == IF k = 0 THEN 1 ELSE 10 * Pow10(k - 1)

FloatErr == [ok |-> FALSE, kind |-> "fin", num |-> 0, den |-> 1]
Fin(n, d) == [ok |-> TRUE, kind |-> "fin", num |-> n, den |-> d]

\* float(s): surrounding blanks, an optional sign, then inf, nan or a decimal
\* with digits on at least one side of an optional point; anything else
\* raises ValueError.  (Exponents and underscores are outside the alphabet of
\* the inputs used here.)
ParseFloat(str) ==
    LET s0 == Strip(str)
        neg == s0 # <<>> /\ Head(s0) = "-"
        s1 == IF s0 # <<>> /\ Head(s0) \in {"-", "+"} THEN Tail(s0) ELSE s0
        parts == Split(s1, ".")
        ip == parts[1]
        fp == IF Len(parts) = 2 THEN parts[2] ELSE <<>>
        digitsOk == /\ Len(parts) <= 2
                    /\ ip \o fp # <<>>
                    /\ \A i \in 1..Len(ip) : DigitVal(ip[i], 10) >= 0
                    /\ \A i \in 1..Len(fp) : DigitVal(fp[i], 10) >= 0
        mag == DigitsValue(ip \o fp, 10, 0)
    IN IF s1 = <<"i","n","f">>
       THEN [ok |-> TRUE, kind |-> "inf", num |-> IF neg THEN -1 ELSE 1, den |-> 1]
       ELSE IF s1 = <<"n","a","n">>
       THEN [ok |-> TRUE, kind |-> "nan", num |-> 0, den |-> 1]
       ELSE IF digitsOk THEN Fin(IF neg THEN 0 - mag ELSE mag, Pow10(Len(fp)))
       ELSE FloatErr

\* f"{n:X}"
RECURSIVE HexDigitsOf(_)
HexDigitsOf(n) ==
    IF n < 16 THEN <<HexUpper[n + 1]>>
    ELSE Append(HexDigitsOf(n \div 16), HexUpper[(n % 16) + 1])

\* str(n) of an int
RECURSIVE DecDigitsOf(_)
DecDigitsOf(n) ==
    IF n < 10 THEN <<HexUpper[n + 1]>>
    ELSE Append(DecDigitsOf(n \div 10), HexUpper[(n % 10) + 1])

FormatDec(n) == IF n < 0 THEN <<"-">> \o DecDigitsOf(0 - n) ELSE DecDigitsOf(n)

\* a changed FormatHexUpper: the id written with f"{n}" (decimal) instead of f"{n:X}"
FormatHexUpper_decimal(n) == FormatDec(n)

FormatHexUpper(n) == IF n < 0 THEN <<"-">> \o HexDigitsOf(0 - n) ELSE HexDigitsOf(n)

\* repr of the float time.time() returns; the clock is a whole number of seconds
FormatFloat(n) == FormatDec(n) \o <<".", "0">>

\* bytes.hex(): two lower-case digits per byte
RECURSIVE BytesHex(_)
BytesHex(data) ==
    IF data = <<>> THEN <<>>
    ELSE <<HexLower[(Head(data) \div 16) + 1], HexLower[(Head(data) % 16) + 1]>>
         \o BytesHex(Tail(data))

\* bytes.fromhex(s): blanks are skipped between bytes, each byte is two hex
\* digits; anything else raises ValueError
RECURSIVE FromHexAcc(_, _)
FromHexAcc(s, acc) ==
    IF s = <<>> THEN [ok |-> TRUE, val |-> acc]
    ELSE IF IsSpace(Head(s)) THEN FromHexAcc(Tail(s), acc)
    ELSE IF Len(s) >= 2 /\ DigitVal(s[1], 16) >= 0 /\ DigitVal(s[2], 16) >= 0
    THEN FromHexAcc(SubSeq(s, 3, Len(s)),
                    Append(acc, 16 * DigitVal(s[1], 16) + DigitVal(s[2], 16)))
    ELSE [ok |-> FALSE, val |-> <<>>]

FromHex(s) == FromHexAcc(s, <<>>)

(***************************************************************************)
(* Frames, the CSV row parser and the trace reader                         *)
(***************************************************************************)
\* can.Message as the program builds it: arbitration_id, is_extended_id, dlc, data
Message(ident, isExt, dlc, data) == [id |-> ident, ext |-> isExt, dlc |-> dlc, data |-> data]

\* csv.reader on one line: an empty line gives the empty row
CsvReadRow(line) == IF line = <<>> THEN <<>> ELSE Split(line, ",")

\* csv.writer.writerow: the fields joined by commas (no field of the program
\* holds a comma, a quote or a line break, so nothing is quoted)
CsvWriteRow(fields) == Join(fields, ",")

RowErr == [ok |-> FALSE, ts |-> Fin(0, 1), id |-> 0, ext |-> FALSE, dlc |-> 0, data |-> <<>>]

\* parse_csv_row: any missing field (IndexError) or unparsable field
\* (ValueError) raises
parse_csv_row(row) ==
    IF Len(row) < 5 THEN RowErr
    ELSE LET ts    == ParseFloat(row[1])
             ident == ParseInt(row[2], 16)
             ext   == ParseInt(row[3], 10)
             dlc   == ParseInt(row[4], 10)
             data  == FromHex(Strip(row[5]))
         IN IF ts.ok /\ ident.ok /\ ext.ok /\ dlc.ok /\ data.ok
            THEN [ok |-> TRUE, ts |-> ts, id |-> ident.val, ext |-> ext.val # 0,
                  dlc |-> dlc.val, data |-> data.val]
            ELSE RowErr

\* the rows the reader skips: empty rows and rows whose first field starts with #
SkippedRow(r) == r = <<>> \/ StartsWith(r[1], <<"#">>)

\* read_replay_csv: every row that is not skipped is parsed; the first row
\* that raises fails the whole read
RECURSIVE ReadRows(_, _)
ReadRows(lines, acc) ==
    IF lines = <<>> THEN [ok |-> TRUE, rows |-> acc]
    ELSE LET r == CsvReadRow(Head(lines))
         IN IF SkippedRow(r) THEN ReadRows(Tail(lines), acc)
            ELSE LET p == parse_csv_row(r)
                 IN IF p.ok THEN ReadRows(Tail(lines), Append(acc, p))
                    ELSE [ok |-> FALSE, rows |-> <<>>]

\* a changed read_replay_csv: a row that raises is dropped and the read goes on
RECURSIVE ReadRowsSkipping(_, _)
ReadRowsSkipping(lines, acc) ==
    IF lines = <<>> THEN [ok |-> TRUE, rows |-> acc]
    ELSE LET r == CsvReadRow(Head(lines))
             p == parse_csv_row(r)
         IN IF SkippedRow(r) \/ ~p.ok THEN ReadRowsSkipping(Tail(lines), acc)
            ELSE ReadRowsSkipping(Tail(lines), Append(acc, p))

read_replay_csv_skipping(lines) == ReadRowsSkipping(lines, <<>>)

read_replay_csv(lines) == ReadRows(lines, <<>>)

\* the row both writers hand to log_writer.writerow
LogFields(now, msg) ==
    << FormatFloat(now), FormatHexUpper(msg.id), FormatDec(IF msg.ext THEN 1 ELSE 0),
       FormatDec(msg.dlc), BytesHex(msg.data) >>

HeaderFields ==
    << <<"t","s">>, <<"i","d","_","h","e","x">>, <<"i","s","_","e","x","t">>,
       <<"d","l","c">>, <<"d","a","t","a","_","h","e","x">> >>

(***************************************************************************)
(* apply_modify_rule                                                       *)
(***************************************************************************)
RuleErr == [ok |-> FALSE, idval |-> 0, byteidx |-> 0, scale |-> Fin(0, 1)]

\* a changed ParseRule: a rule that does not parse falls back to a default
\* rule (id 0x110, byte 0, scale 0) instead of no rule
ParseRule_default(rule) ==
    LET parts == Split(rule, ":")
        idval   == IF Len(parts) >= 2 THEN ParseInt(parts[2], 16) ELSE Err
        byteidx == IF Len(parts) >= 4 THEN ParseInt(parts[4], 10) ELSE Err
        scale   == IF Len(parts) >= 6 THEN ParseFloat(parts[6]) ELSE FloatErr
    IN [ok |-> TRUE,
        idval |-> IF idval.ok THEN idval.val ELSE 272,
        byteidx |-> IF byteidx.ok THEN byteidx.val ELSE 0,
        scale |-> IF scale.ok THEN scale ELSE [ok |-> TRUE, kind |-> "fin", num |-> 0, den |-> 1]]

\* lines 56-63: six colon-separated fields, of which the 2nd, 4th and 6th
\* must parse; otherwise the except branch returns msg
ParseRule(rule) ==
    LET parts == Split(rule, ":")
    IN IF Len(parts) # 6 THEN RuleErr
       ELSE LET idval   == ParseInt(parts[2], 16)
                byteidx == ParseInt(parts[4], 10)
                scale   == ParseFloat(parts[6])
            IN IF idval.ok /\ byteidx.ok /\ scale.ok
               THEN [ok |-> TRUE, idval |-> idval.val, byteidx |-> byteidx.val,
                     scale |-> scale]
               ELSE RuleErr

\* a changed IdMismatch: the id test of line 64 left out
IdMismatch_never(msg, idval) == FALSE

\* line 64
IdMismatch(msg, idval) == msg.id # idval

\* line 67
IndexInRange(byteidx, n) == byteidx < n

\* int(x) of the float num/den: truncation toward zero
TruncDiv(num, den) == IF num >= 0 THEN num \div den ELSE 0 - ((0 - num) \div den)

\* line 69: int(original * scale) & 0xFF; int() of inf raises OverflowError
\* and int() of nan raises ValueError
ScaleByte(original, scale) ==
    IF scale.kind # "fin" THEN [ok |-> FALSE, val |-> 0]
    ELSE [ok |-> TRUE, val |-> TruncDiv(original * scale.num, scale.den) % 256]

\* lines 68-70: b[byteidx] with Python's negative indexing; an index below
\* -len(b) raises IndexError
SetByte(data, byteidx, scale) ==
    LET n == Len(data)
        i == IF byteidx >= 0 THEN byteidx + 1 ELSE n + byteidx + 1
    IN IF i < 1 THEN [ok |-> FALSE, val |-> data]
       ELSE LET sb == ScaleByte(data[i], scale)
            IN IF sb.ok THEN [ok |-> TRUE, val |-> [data EXCEPT ![i] = sb.val]]
               ELSE [ok |-> FALSE, val |-> data]

\* apply_modify_rule: the message it returns, or raised when an exception
\* leaves the function
apply_modify_rule(msg, rule) ==
    LET r == ParseRule(rule)
    IN IF ~r.ok THEN [raised |-> FALSE, msg |-> msg]
       ELSE IF IdMismatch(msg, r.idval) THEN [raised |-> FALSE, msg |-> msg]
       ELSE IF IndexInRange(r.byteidx, Len(msg.data))
       THEN LET w == SetByte(msg.data, r.byteidx, r.scale)
            IN IF w.ok THEN [raised |-> FALSE, msg |-> [msg EXCEPT !.data = w.val]]
               ELSE [raised |-> TRUE, msg |-> msg]
       ELSE [raised |-> FALSE, msg |-> msg]

(***************************************************************************)
(* generator_mode: the spec parser                                         *)
(***************************************************************************)
GenErr == [ok |-> FALSE, idval |-> 0, data |-> <<>>, freq |-> Fin(1, 1)]

\* lines 110-120: dN labels take the next part as one hex byte
\* (bytearray.append raises ValueError outside 0..255), freq takes the next
\* part as a float, any other part is skipped; a label with no part after it
\* raises IndexError
RECURSIVE GenParts(_, _, _, _)
GenParts(parts, i, data, freq) ==
    IF i > Len(parts) THEN [ok |-> TRUE, idval |-> 0, data |-> data, freq |-> freq]
    ELSE IF StartsWith(parts[i], <<"d">>)
    THEN IF i + 1 > Len(parts) THEN GenErr
         ELSE LET v == ParseInt(parts[i + 1], 16)
              IN IF v.ok /\ v.val \in 0..255
                 THEN GenParts(parts, i + 2, Append(data, v.val), freq)
                 ELSE GenErr
    ELSE IF parts[i] = <<"f","r","e","q">>
    THEN IF i + 1 > Len(parts) THEN GenErr
         ELSE LET f == ParseFloat(parts[i + 1])
              IN IF f.ok THEN GenParts(parts, i + 2, data, f) ELSE GenErr
    ELSE GenParts(parts, i + 1, data, freq)

\* lines 104-121
ParseGenSpec(spec) ==
    LET parts == Split(spec, ":")
    IN IF Len(parts) < 2 THEN GenErr
       ELSE LET idval == ParseInt(parts[2], 16)
                rest  == GenParts(parts, 3, <<>>, Fin(1, 1))
            IN IF idval.ok /\ rest.ok THEN [rest EXCEPT !.idval = idval.val]
               ELSE GenErr

\* line 121: period = 1.0 / max(0.0001, freq), as the exact fraction num/den
Period(freq) ==
    IF freq.num * 10000 < freq.den THEN [num |-> 10000, den |-> 1]
    ELSE [num |-> freq.den, den |-> freq.num]

(***************************************************************************)
(* Inputs                                                                  *)
(***************************************************************************)
Comma == <<",">>
Colon == <<":">>

\* trace lines: timestamps are whole seconds, so the integer clock is exact
LineA == <<"0",".","0">> \o Comma \o <<"1","1","0">> \o Comma \o <<"0">> \o Comma
         \o <<"8">> \o Comma \o <<"0","1","9","0">>
LineC == <<"1",".","0">> \o Comma \o <<"1","A">> \o Comma \o <<"1">> \o Comma
         \o <<"0">> \o Comma
LineBadId == <<"1",".","0">> \o Comma \o <<"1","G">> \o Comma \o <<"0">> \o Comma
             \o <<"1">> \o Comma \o <<"0","1">>
LineShort == <<"1",".","0">> \o Comma \o <<"1","1","0">> \o Comma \o <<"0">> \o Comma
             \o <<"2">>
LineOddHex == <<"1",".","0">> \o Comma \o <<"1","1","0">> \o Comma \o <<"0">> \o Comma
              \o <<"2">> \o Comma \o <<"0","1","2">>
LineComment == <<"#"," ","c">>
LineBlank == <<>>
LineHeader == CsvWriteRow(HeaderFields)

\* modify rules: id:<hex>:byte:<index>:scale:<float>
RuleOf(idTok, idxTok, scaleTok) ==
    <<"i","d">> \o Colon \o idTok \o Colon \o <<"b","y","t","e">> \o Colon \o idxTok
    \o Colon \o <<"s","c","a","l","e">> \o Colon \o scaleTok

NoRule == <<>>
RuleHalf == RuleOf(<<"0","x","1","1","0">>, <<"0">>, <<"0",".","5">>)
RuleInf == RuleOf(<<"1","1","0">>, <<"0">>, <<"i","n","f">>)
RuleBadScale == RuleOf(<<"1","1","0">>, <<"0">>, <<"x">>)
RuleFewFields == <<"i","d">> \o Colon \o <<"1","1","0">> \o Colon \o <<"b","y","t","e">>
                 \o Colon \o <<"0">>

\* generator specs: id:<hex>:d1:<hex>:...:freq:<float>
GenGood == <<"i","d">> \o Colon \o <<"0","x","1","1","0">> \o Colon \o <<"d","1">> \o Colon
           \o <<"0","0">> \o Colon \o <<"d","2">> \o Colon \o <<"3","C">> \o Colon
           \o <<"f","r","e","q">> \o Colon \o <<"1">>
GenSlow == <<"i","d">> \o Colon \o <<"1","A">> \o Colon \o <<"f","r","e","q">> \o Colon
           \o <<"0",".","5">>
GenNoValue == <<"i","d">> \o Colon \o <<"1","1","0">> \o Colon \o <<"d","1">>
GenNoId == <<"i","d">>
GenNoFreq == <<"i","d">> \o Colon \o <<"1","1","0">> \o Colon \o <<"f","r","e","q">>
GenBadValue == <<"i","d">> \o Colon \o <<"1","1","0">> \o Colon \o <<"d","1">> \o Colon
               \o <<"Z","Z">>

\* a frame another node puts on the bus
RxFrame == Message(291, FALSE, 1, <<171>>)

(***************************************************************************)
(* Bounds                                                                  *)
(***************************************************************************)
MaxRows == 2        \* lines of a replay input file
MaxRx == 1          \* frames other nodes put on the bus during a session
MaxGenSends == 2    \* sends of the (endless) generator that are followed
MaxClock == 1       \* seconds the clock advances while nobody sleeps

(***************************************************************************)
(* State                                                                   *)
(***************************************************************************)
VARIABLES
    args,        \* parse_args(): mode, logOut, file (the lines of --replay), modify, gen
    mainPc,      \* position of the main thread
    rows,        \* replay: the trace read_replay_csv returned
    idx,         \* replay: index of the record of the current iteration
    t0,          \* replay: time.time() at line 78
    period,      \* generator: line 121
    wake,        \* the time the main thread's time.sleep returns
    cur,         \* the message of the current iteration
    sent,        \* every bus.send the scheduler called: the message and the outcome
    cancelled,   \* a KeyboardInterrupt was delivered
    crashed,     \* another exception left main()
    log,         \* the rows written to --log-out
    logClosed,   \* log_f.close() was called
    pending,     \* per thread, the row it is writing
    now,         \* the wall clock
    rxQueue,     \* the BufferedReader's queue
    rxCount,     \* frames delivered by the bus so far
    notifierOn,  \* the can.Notifier is running
    readerPc,    \* position of the reader thread
    readerMsg,   \* the message the reader thread handles
    fpc,         \* pure-function checks: position
    fin,         \* pure-function checks: input
    fout         \* pure-function checks: output

mainVars == <<mainPc, rows, idx, t0, period, wake, cur, sent, cancelled, crashed>>
logVars == <<log, logClosed, pending>>
lisVars == <<rxQueue, rxCount, notifierOn, readerPc, readerMsg>>
fnVars == <<fpc, fin, fout>>
vars == <<args, mainVars, logVars, lisVars, now, fnVars>>

NoMsg == Message(0, FALSE, 0, <<>>)
Zero == [num |-> 0, den |-> 1]

\* all sequences over S of length at most n
RECURSIVE SeqsUpTo(_, _)
SeqsUpTo(S, n) ==
    IF n = 0 THEN {<<>>}
    ELSE LET shorter == SeqsUpTo(S, n - 1)
         IN shorter \cup {Append(q, x) : q \in {r \in shorter : Len(r) = n - 1}, x \in S}

SessionLines == {LineA, LineC, LineBadId}
SessionRules == {NoRule, RuleHalf, RuleInf, RuleBadScale, RuleFewFields}
SessionGens == {GenGood, GenSlow, GenNoValue, GenNoId, GenNoFreq, GenBadValue}

\* every file of at most MaxRows of these lines, and some files with comment
\* lines, blank lines and other malformed rows
SessionFiles ==
    SeqsUpTo(SessionLines, MaxRows)
    \cup {<<LineComment, LineA>>, <<LineA, LineBlank, LineC>>, <<LineComment, LineBadId>>,
          <<LineA, LineShort, LineC>>, <<LineA, LineC, LineOddHex>>, <<LineHeader, LineA>>}

ReplayArgs ==
    [mode : {"replay"}, logOut : BOOLEAN, file : SessionFiles,
     modify : SessionRules, gen : {<<>>}]
GenArgs ==
    [mode : {"gen"}, logOut : BOOLEAN, file : {<<>>}, modify : {NoRule}, gen : SessionGens]
ListenArgs ==
    [mode : {"listen"}, logOut : BOOLEAN, file : {<<>>}, modify : {NoRule}, gen : {<<>>}]

IdleSession ==
    /\ mainPc = "open_log" /\ rows = <<>> /\ idx = 0 /\ t0 = 0 /\ period = Zero
    /\ wake = Zero /\ cur = NoMsg /\ sent = <<>> /\ cancelled = FALSE /\ crashed = FALSE
    /\ log = <<>> /\ logClosed = FALSE /\ pending = [t \in {"main", "reader"} |-> <<>>]
    /\ now = 0
    /\ rxQueue = <<>> /\ rxCount = 0 /\ notifierOn = FALSE /\ readerPc = "off"
    /\ readerMsg = NoMsg

Init ==
    /\ args \in ReplayArgs \cup GenArgs \cup ListenArgs
    /\ IdleSession
    /\ fpc = "off" /\ fin = <<>> /\ fout = <<>>

(***************************************************************************)
(* The shared log sink                                                     *)
(***************************************************************************)
\* the threads that are inside log_writer.writerow
InWrite == {t \in {"main", "reader"} : pending[t] # <<>>}

\* a thread calls log_writer.writerow(fields): nothing in the program
\* serializes the two writers, so the other thread may be inside it too
EnterWrite(t, fields) == pending' = [pending EXCEPT ![t] = CsvWriteRow(fields)]

\* writerow returns: the row is in the file
ExitWrite(t, who) ==
    /\ log' = Append(log, [who |-> who, line |-> pending[t]])
    /\ pending' = [pending EXCEPT ![t] = <<>>]

(***************************************************************************)
(* main(): set-up                                                          *)
(***************************************************************************)
Alive == mainPc # "done"

\* lines 163-166: open the log and write the header row
OpenLog ==
    /\ mainPc = "open_log"
    /\ log' = IF args.logOut
              THEN <<[who |-> "header", line |-> CsvWriteRow(HeaderFields)]>>
              ELSE <<>>
    /\ mainPc' = "start_listener"
    /\ UNCHANGED <<args, rows, idx, t0, period, wake, cur, sent, cancelled, crashed,
                   logClosed, pending, lisVars, now, fnVars>>

\* line 168, lines 147-156: the notifier and the daemon reader thread start
StartListener ==
    /\ mainPc = "start_listener"
    /\ notifierOn' = TRUE
    /\ readerPc' = "poll"
    /\ mainPc' = "dispatch"
    /\ UNCHANGED <<args, rows, idx, t0, period, wake, cur, sent, cancelled, crashed,
                   logVars, rxQueue, rxCount, readerMsg, now, fnVars>>

(***************************************************************************)
(* replay                                                                  *)
(***************************************************************************)
\* lines 170-171: the whole file is read before replay is called; an
\* exception of the reader leaves the try block through finally
ReadTrace ==
    /\ mainPc = "dispatch" /\ args.mode = "replay"
    /\ LET r == read_replay_csv(args.file)
       IN IF r.ok
          THEN /\ rows' = r.rows /\ mainPc' = "replay_start" /\ UNCHANGED crashed
          ELSE /\ crashed' = TRUE /\ mainPc' = "finally_close" /\ UNCHANGED rows
    /\ UNCHANGED <<args, idx, t0, period, wake, cur, sent, cancelled,
                   logVars, lisVars, now, fnVars>>

\* lines 75-78: an empty trace returns at once; otherwise both anchors are taken
ReplayStart ==
    /\ mainPc = "replay_start"
    /\ IF rows = <<>>
       THEN /\ mainPc' = "finally_close" /\ UNCHANGED <<idx, t0>>
       ELSE /\ mainPc' = "replay_wait" /\ idx' = 1 /\ t0' = now
    /\ UNCHANGED <<args, rows, period, wake, cur, sent, cancelled, crashed,
                   logVars, lisVars, now, fnVars>>

\* lines 80-81: target = t0 + (ts - start_ts), as an exact fraction
Target(ts, startTs, anchor) ==
    [num |-> anchor * ts.den * startTs.den + ts.num * startTs.den - startTs.num * ts.den,
     den |-> ts.den * startTs.den]

\* a changed MustSleep: the comparison of line 84 never asks for a sleep
MustSleep_never(target, clock) == FALSE

\* line 84: to_sleep > 0 with to_sleep = target - now
MustSleep(target, clock) == target.num > clock * target.den

\* time.sleep returns once the clock has reached the wake time
Woken(w, clock) == clock * w.den >= w.num

\* lines 79-85: compute the deadline of the current record; sleep when it is ahead
ReplayWait ==
    /\ mainPc = "replay_wait"
    /\ LET target == Target(rows[idx].ts, rows[1].ts, t0)
       IN IF MustSleep(target, now)
          THEN /\ wake' = target /\ mainPc' = "replay_sleep"
          ELSE /\ mainPc' = "replay_send" /\ UNCHANGED wake
    /\ UNCHANGED <<args, rows, idx, t0, period, cur, sent, cancelled, crashed,
                   logVars, lisVars, now, fnVars>>

\* line 85: time.sleep(to_sleep) returns
ReplayWake ==
    /\ mainPc = "replay_sleep"
    /\ Woken(wake, now)
    /\ mainPc' = "replay_send"
    /\ wake' = Zero
    /\ UNCHANGED <<args, rows, idx, t0, period, cur, sent, cancelled, crashed,
                   logVars, lisVars, now, fnVars>>

\* replay or generator_mode is left (by return or by an exception): its
\* locals are gone
LeaveScheduler ==
    /\ mainPc' = "finally_close"
    /\ idx' = 0 /\ t0' = 0 /\ period' = Zero /\ wake' = Zero /\ cur' = NoMsg

\* the loop of line 79 moves to the next record, or replay returns
NextRecord ==
    IF idx < Len(rows)
    THEN /\ mainPc' = "replay_wait" /\ idx' = idx + 1 /\ cur' = NoMsg
         /\ UNCHANGED <<t0, period, wake>>
    ELSE LeaveScheduler

\* line 88
RuleGiven(rule) == rule # <<>>

\* a changed ReplaySend: the message shares its data with the record of the
\* trace, so the rule's assignment reaches the trace
ReplaySend_aliased ==
    /\ mainPc = "replay_send"
    /\ LET rec == rows[idx]
           built == Message(rec.id, rec.ext, rec.dlc, rec.data)
           res == IF RuleGiven(args.modify) THEN apply_modify_rule(built, args.modify)
                  ELSE [raised |-> FALSE, msg |-> built]
       IN IF res.raised
          THEN /\ crashed' = TRUE /\ LeaveScheduler /\ UNCHANGED <<sent, rows>>
          ELSE /\ \E ok \in BOOLEAN : sent' = Append(sent, [msg |-> res.msg, ok |-> ok])
               /\ rows' = [rows EXCEPT ![idx].data = res.msg.data]
               /\ IF args.logOut
                  THEN /\ mainPc' = "replay_log" /\ cur' = res.msg
                       /\ UNCHANGED <<idx, t0, period, wake>>
                  ELSE NextRecord
               /\ UNCHANGED crashed
    /\ UNCHANGED <<args, cancelled, logVars, lisVars, now, fnVars>>

\* lines 86-96: build the message, apply the rule when one is given, send.
\* bus.send succeeds or raises can.CanError, which is caught; an exception of
\* apply_modify_rule is not caught
ReplaySend ==
    /\ mainPc = "replay_send"
    /\ LET rec == rows[idx]
           built == Message(rec.id, rec.ext, rec.dlc, rec.data)
           res == IF RuleGiven(args.modify) THEN apply_modify_rule(built, args.modify)
                  ELSE [raised |-> FALSE, msg |-> built]
       IN IF res.raised
          THEN /\ crashed' = TRUE /\ LeaveScheduler /\ UNCHANGED sent
          ELSE /\ \E ok \in BOOLEAN : sent' = Append(sent, [msg |-> res.msg, ok |-> ok])
               /\ IF args.logOut
                  THEN /\ mainPc' = "replay_log" /\ cur' = res.msg
                       /\ UNCHANGED <<idx, t0, period, wake>>
                  ELSE NextRecord
               /\ UNCHANGED crashed
    /\ UNCHANGED <<args, rows, cancelled, logVars, lisVars, now, fnVars>>

\* lines 98-100: the arguments are evaluated and writerow is entered
ReplayLogEnter ==
    /\ mainPc = "replay_log"
    /\ EnterWrite("main", LogFields(now, cur))
    /\ mainPc' = "replay_writing"
    /\ UNCHANGED <<args, rows, idx, t0, period, wake, cur, sent, cancelled, crashed,
                   log, logClosed, lisVars, now, fnVars>>

\* lines 98-100: writerow returns
ReplayLogExit ==
    /\ mainPc = "replay_writing"
    /\ ExitWrite("main", "sched")
    /\ NextRecord
    /\ UNCHANGED <<args, rows, sent, cancelled, crashed, logClosed, lisVars, now, fnVars>>

(***************************************************************************)
(* generator_mode                                                          *)
(***************************************************************************)
\* lines 174-175, 104-122: parse the spec; an exception of the parser is not
\* caught and leaves the try block through finally
GenParse ==
    /\ mainPc = "dispatch" /\ args.mode = "gen"
    /\ LET g == ParseGenSpec(args.gen)
       IN IF g.ok
          THEN /\ cur' = Message(g.idval, FALSE, Len(g.data), g.data)
               /\ period' = Period(g.freq)
               /\ mainPc' = "gen_send"
               /\ UNCHANGED crashed
          ELSE /\ crashed' = TRUE /\ mainPc' = "finally_close"
               /\ UNCHANGED <<cur, period>>
    /\ UNCHANGED <<args, rows, idx, t0, wake, sent, cancelled, logVars, lisVars, now, fnVars>>

\* line 134: time.sleep(period) called at the given time
SleepUntil(clock, p) == [num |-> clock * p.den + p.num, den |-> p.den]

\* a changed GenSend: a send that raises can.CanError ends generator_mode
GenSend_failStops ==
    /\ mainPc = "gen_send"
    /\ Len(sent) < MaxGenSends
    /\ \E ok \in BOOLEAN :
          /\ sent' = Append(sent, [msg |-> cur, ok |-> ok])
          /\ IF ~ok THEN LeaveScheduler /\ crashed' = TRUE
             ELSE /\ IF args.logOut
                     THEN /\ mainPc' = "gen_log" /\ UNCHANGED wake
                     ELSE /\ mainPc' = "gen_sleep" /\ wake' = SleepUntil(now, period)
                  /\ UNCHANGED <<idx, t0, period, cur, crashed>>
    /\ UNCHANGED <<args, rows, cancelled, logVars, lisVars, now, fnVars>>

\* lines 125-130: send; can.CanError is caught
GenSend ==
    /\ mainPc = "gen_send"
    /\ Len(sent) < MaxGenSends
    /\ \E ok \in BOOLEAN : sent' = Append(sent, [msg |-> cur, ok |-> ok])
    /\ IF args.logOut
       THEN /\ mainPc' = "gen_log" /\ UNCHANGED wake
       ELSE /\ mainPc' = "gen_sleep" /\ wake' = SleepUntil(now, period)
    /\ UNCHANGED <<args, rows, idx, t0, period, cur, cancelled, crashed,
                   logVars, lisVars, now, fnVars>>

\* lines 131-133: writerow is entered
GenLogEnter ==
    /\ mainPc = "gen_log"
    /\ EnterWrite("main", LogFields(now, cur))
    /\ mainPc' = "gen_writing"
    /\ UNCHANGED <<args, rows, idx, t0, period, wake, cur, sent, cancelled, crashed,
                   log, logClosed, lisVars, now, fnVars>>

\* lines 131-134: writerow returns and the sleep begins
GenLogExit ==
    /\ mainPc = "gen_writing"
    /\ ExitWrite("main", "sched")
    /\ mainPc' = "gen_sleep"
    /\ wake' = SleepUntil(now, period)
    /\ UNCHANGED <<args, rows, idx, t0, period, cur, sent, cancelled, crashed,
                   logClosed, lisVars, now, fnVars>>

\* line 134: time.sleep(period) returns, the loop of line 124 goes round
GenWake ==
    /\ mainPc = "gen_sleep"
    /\ Woken(wake, now)
    /\ mainPc' = "gen_send"
    /\ wake' = Zero
    /\ UNCHANGED <<args, rows, idx, t0, period, cur, sent, cancelled, crashed,
                   logVars, lisVars, now, fnVars>>

(***************************************************************************)
(* main(): no mode, cancellation, shutdown                                 *)
(***************************************************************************)
\* lines 176-179: listen only
ListenOnly ==
    /\ mainPc = "dispatch" /\ args.mode = "listen"
    /\ mainPc' = "idle"
    /\ UNCHANGED <<args, rows, idx, t0, period, wake, cur, sent, cancelled, crashed,
                   logVars, lisVars, now, fnVars>>

\* the positions of the main thread inside the try block of lines 169-179 at
\* which Python can raise KeyboardInterrupt (not inside the C call writerow)
Interruptible ==
    {"dispatch", "replay_start", "replay_wait", "replay_sleep", "replay_send",
     "replay_log", "gen_send", "gen_log", "gen_sleep", "idle"}

\* a changed Cancel: the interrupt is noted and the scheduler goes on
Cancel_swallowed ==
    /\ mainPc \in Interruptible
    /\ cancelled' = TRUE
    /\ UNCHANGED <<args, mainPc, rows, idx, t0, period, wake, cur, sent, crashed,
                   logVars, lisVars, now, fnVars>>

\* lines 135-136, 180-181: KeyboardInterrupt ends the scheduler; both handlers
\* lead to the finally block
Cancel ==
    /\ mainPc \in Interruptible
    /\ cancelled' = TRUE
    /\ LeaveScheduler
    /\ UNCHANGED <<args, rows, sent, crashed,
                   logVars, lisVars, now, fnVars>>

\* lines 183-184: the log file is closed first
FinallyClose ==
    /\ mainPc = "finally_close"
    /\ logClosed' = args.logOut
    /\ mainPc' = "finally_stop"
    /\ UNCHANGED <<args, rows, idx, t0, period, wake, cur, sent, cancelled, crashed,
                   log, pending, lisVars, now, fnVars>>

\* line 185: notifier.stop() stops the notifier; the reader thread is not told
FinallyStop ==
    /\ mainPc = "finally_stop"
    /\ notifierOn' = FALSE
    /\ mainPc' = "finally_shutdown"
    /\ UNCHANGED <<args, rows, idx, t0, period, wake, cur, sent, cancelled, crashed,
                   logVars, rxQueue, rxCount, readerPc, readerMsg, now, fnVars>>

\* line 186: bus.shutdown(); main returns and the process ends, which ends the
\* daemon reader thread
FinallyShutdown ==
    /\ mainPc = "finally_shutdown"
    /\ mainPc' = "done"
    /\ UNCHANGED <<args, rows, idx, t0, period, wake, cur, sent, cancelled, crashed,
                   logVars, lisVars, now, fnVars>>

(***************************************************************************)
(* start_listener: the notifier and the reader thread                      *)
(***************************************************************************)
\* line 148: the notifier hands a received frame to the BufferedReader
BusDeliver ==
    /\ Alive /\ notifierOn
    /\ rxCount < MaxRx
    /\ rxQueue' = Append(rxQueue, RxFrame)
    /\ rxCount' = rxCount + 1
    /\ UNCHANGED <<args, mainVars, logVars, notifierOn, readerPc, readerMsg, now, fnVars>>

\* lines 150-153, 140-145: get_message returns a message (a timeout returns
\* None and the loop goes round); on_message prints it and, with a log
\* writer, enters writerow whether or not the file is still open
ReaderPoll ==
    /\ Alive /\ readerPc = "poll"
    /\ rxQueue # <<>>
    /\ rxQueue' = Tail(rxQueue)
    /\ IF args.logOut
       THEN /\ EnterWrite("reader", LogFields(now, Head(rxQueue)))
            /\ readerMsg' = Head(rxQueue)
            /\ readerPc' = IF logClosed THEN "writing_closed" ELSE "writing"
       ELSE /\ readerPc' = "poll"
            /\ readerMsg' = NoMsg
            /\ UNCHANGED pending
    /\ UNCHANGED <<args, mainVars, log, logClosed, rxCount, notifierOn, now, fnVars>>

\* lines 144-145: writerow returns (when the file was closed during the
\* call the row may still have reached it)
ReaderLogExit ==
    /\ Alive /\ readerPc = "writing"
    /\ ExitWrite("reader", "listener")
    /\ readerPc' = "poll"
    /\ readerMsg' = NoMsg
    /\ UNCHANGED <<args, mainVars, logClosed, rxQueue, rxCount, notifierOn, now, fnVars>>

\* lines 144-145: writerow on the closed file raises ValueError, which ends
\* the reader thread
ReaderLogRaise ==
    /\ Alive
    /\ readerPc = "writing_closed" \/ (readerPc = "writing" /\ logClosed)
    /\ readerPc' = "dead"
    /\ pending' = [pending EXCEPT !["reader"] = <<>>]
    /\ readerMsg' = NoMsg
    /\ UNCHANGED <<args, mainVars, log, logClosed, rxQueue, rxCount, notifierOn, now, fnVars>>

(***************************************************************************)
(* The clock                                                               *)
(***************************************************************************)
Sleeping == mainPc \in {"replay_sleep", "gen_sleep"}

\* time passes: always while a sleeper waits for it, otherwise up to MaxClock
Tick ==
    /\ Alive
    /\ now < MaxClock \/ (Sleeping /\ ~Woken(wake, now))
    /\ now' = now + 1
    /\ UNCHANGED <<args, mainVars, logVars, lisVars, fnVars>>

Next ==
    \/ OpenLog \/ StartListener
    \/ ReadTrace \/ ReplayStart \/ ReplayWait \/ ReplayWake \/ ReplaySend
    \/ ReplayLogEnter \/ ReplayLogExit
    \/ GenParse \/ GenSend \/ GenLogEnter \/ GenLogExit \/ GenWake
    \/ ListenOnly \/ Cancel \/ FinallyClose \/ FinallyStop \/ FinallyShutdown
    \/ BusDeliver \/ ReaderPoll \/ ReaderLogExit \/ ReaderLogRaise
    \/ Tick

Spec == Init /\ [][Next]_vars

(***************************************************************************)
(* A generator session on its own, with the threads and the clock making   *)
(* progress: the main thread takes its next step unless it waits for the   *)
(* clock, the reader thread takes its next step, and time passes           *)
(***************************************************************************)
InitGen ==
    /\ args \in GenArgs
    /\ IdleSession
    /\ fpc = "off" /\ fin = <<>> /\ fout = <<>>

NextGen ==
    \/ OpenLog \/ StartListener \/ GenParse
    \/ GenSend \/ GenLogEnter \/ GenLogExit \/ GenWake
    \/ Cancel \/ FinallyClose \/ FinallyStop \/ FinallyShutdown
    \/ BusDeliver \/ ReaderPoll \/ ReaderLogExit \/ ReaderLogRaise
    \/ Tick

\* once the generator spec is parsed, every step of the main thread other
\* than the delivery of an interrupt is taken when it stays possible
MainFair ==
    /\ WF_vars(OpenLog) /\ WF_vars(StartListener)
    /\ WF_vars(GenSend) /\ WF_vars(GenLogEnter) /\ WF_vars(GenLogExit) /\ WF_vars(GenWake)
    /\ WF_vars(FinallyClose) /\ WF_vars(FinallyStop) /\ WF_vars(FinallyShutdown)

\* so is every step of the reader thread
ReaderFair == WF_vars(ReaderPoll) /\ WF_vars(ReaderLogExit) /\ WF_vars(ReaderLogRaise)

SpecGen == InitGen /\ [][NextGen]_vars /\ MainFair /\ ReaderFair /\ WF_vars(Tick)

(***************************************************************************)
(* apply_modify_rule on its own: a frame and a rule string are drawn, the   *)
(* function is applied once                                                *)
(***************************************************************************)
MaxData == 2        \* data bytes of the frames the rule is applied to

\* scale factors: the text given on the command line and the float it denotes
Scales ==
    { [tok |-> <<"0",".","5">>,     kind |-> "fin", num |-> 1,  den |-> 2],
      [tok |-> <<"2",".","0">>,     kind |-> "fin", num |-> 2,  den |-> 1],
      [tok |-> <<"1",".","0">>,     kind |-> "fin", num |-> 1,  den |-> 1],
      [tok |-> <<"-","0",".","5">>, kind |-> "fin", num |-> -1, den |-> 2],
      [tok |-> <<"i","n","f">>,     kind |-> "inf", num |-> 1,  den |-> 1],
      [tok |-> <<"n","a","n">>,     kind |-> "nan", num |-> 0,  den |-> 1] }

ApplyIds == {272, 26}
ApplyBytes == {0, 1, 3, 8, 128, 144, 255}
ApplyFrames ==
    {Message(i, FALSE, 8, d) : i \in ApplyIds, d \in SeqsUpTo(ApplyBytes, MaxData)}

\* the rules of the data model (match_id, byte_index, scale_factor), with the
\* text that denotes them; byte_index below zero is not well-formed
ApplyRules ==
    { [str |-> RuleOf(FormatHexUpper(i), FormatDec(b), sc.tok),
       matchId |-> i, byteIndex |-> b, scale |-> sc, parses |-> TRUE]
      : i \in ApplyIds, b \in -3..MaxData, sc \in Scales }

\* rule strings that do not parse
MalformedRules ==
    { [str |-> r, matchId |-> 0, byteIndex |-> 0, scale |-> CHOOSE sc \in Scales : sc.num = 2,
       parses |-> FALSE]
      : r \in {RuleBadScale, RuleFewFields,
               RuleOf(<<"1","G">>, <<"0">>, <<"0",".","5">>),
               RuleOf(<<"1","1","0">>, <<"x">>, <<"0",".","5">>),
               RuleOf(<<"1","1","0">>, <<"0">>, <<"0",".","5">>) \o Colon \o <<"1">>} }

InitApply ==
    /\ args = [mode |-> "none", logOut |-> FALSE, file |-> <<>>, modify |-> NoRule, gen |-> <<>>]
    /\ IdleSession
    /\ fpc = "apply"
    /\ fin \in [msg : ApplyFrames, rule : ApplyRules \cup MalformedRules]
    /\ fout = <<>>

\* lines 63, 65, 71, 72: the message object passed in, as its holder sees it
\* after a call with the outcome res. b is a copy of the data, but line 71
\* assigns the new bytes to the data attribute of the object passed in and
\* every return hands that same object back; a call that raises has not
\* reached line 71
ArgAfterApply(msg, res) == IF res.raised THEN msg ELSE res.msg

\* one call of apply_modify_rule(msg, rule): what it returns (or that it
\* raised) and the state of the object it was given; first is the message
\* an earlier call returned
ApplyCall(first, msg, rule) ==
    LET r == apply_modify_rule(msg, rule)
    IN [first |-> first, raised |-> r.raised, msg |-> r.msg, arg |-> ArgAfterApply(msg, r)]

\* a call of apply_modify_rule on the frame drawn
DoApply ==
    /\ fpc = "apply"
    /\ fout' = ApplyCall(fin.msg, fin.msg, fin.rule.str)
    /\ fpc' = "applied"
    /\ UNCHANGED <<args, mainVars, logVars, lisVars, now, fin>>

\* a changed DoApplyAgain: the second call is given the original frame
DoApplyAgain_fromOriginal ==
    /\ fpc = "applied" /\ ~fout.raised
    /\ fout' = ApplyCall(fout.msg, fin.msg, fin.rule.str)
    /\ fpc' = "applied_twice"
    /\ UNCHANGED <<args, mainVars, logVars, lisVars, now, fin>>

\* a second call of apply_modify_rule, on the message the first call returned
DoApplyAgain ==
    /\ fpc = "applied" /\ ~fout.raised
    /\ fout' = ApplyCall(fout.msg, fout.msg, fin.rule.str)
    /\ fpc' = "applied_twice"
    /\ UNCHANGED <<args, mainVars, logVars, lisVars, now, fin>>

NextApply == DoApply \/ DoApplyAgain

SpecApply == InitApply /\ [][NextApply]_vars

(***************************************************************************)
(* One log row written and read back                                       *)
(***************************************************************************)
RoundTripIds == {0, 10, 272, 2047, 11259375, 536870911}
RoundTripData ==
    {SubSeq(<<1, 35, 69, 103, 137, 171, 205, 239>>, 1, n) : n \in 0..8}
    \cup {<<b>> : b \in 0..255}
    \cup SeqsUpTo({10, 240}, MaxData)
RoundTripFrames ==
    {Message(i, e, l, d) : i \in RoundTripIds, e \in BOOLEAN, l \in 0..8, d \in RoundTripData}

InitRoundTrip ==
    /\ args = [mode |-> "none", logOut |-> FALSE, file |-> <<>>, modify |-> NoRule, gen |-> <<>>]
    /\ IdleSession
    /\ fpc = "write"
    /\ fin \in [msg : RoundTripFrames, at : {0, 12}]
    /\ fout = <<>>

\* lines 99-100 (and 132-133, 144-145): the row as it reaches the file
WriteRow ==
    /\ fpc = "write"
    /\ fout' = CsvWriteRow(LogFields(fin.at, fin.msg))
    /\ fpc' = "written"
    /\ UNCHANGED <<args, mainVars, logVars, lisVars, now, fin>>

\* lines 49-51: the reader's csv row of that line, parsed by parse_csv_row
ReadBack ==
    /\ fpc = "written"
    /\ fout' = parse_csv_row(CsvReadRow(fout))
    /\ fpc' = "read"
    /\ UNCHANGED <<args, mainVars, logVars, lisVars, now, fin>>

NextRoundTrip == WriteRow \/ ReadBack

SpecRoundTrip == InitRoundTrip /\ [][NextRoundTrip]_vars

(***************************************************************************)
(* Properties                                                              *)
(***************************************************************************)
\* the message replay builds from a record before any rule is applied
RecordMsg(rec) == Message(rec.id, rec.ext, rec.dlc, rec.data)

SameHeader(m, rec) == m.id = rec.id /\ m.ext = rec.ext /\ m.dlc = rec.dlc

ReplayOver == args.mode = "replay" /\ mainPc = "done"

AllSendsOk == \A i \in 1..Len(sent) : sent[i].ok

SomeSendFailed == \E i \in 1..Len(sent) : ~sent[i].ok

\* the sends made are those of the whole trace, one per record, in trace order
SentWholeTrace ==
    /\ Len(sent) = Len(rows)
    /\ \A i \in 1..Len(sent) : SameHeader(sent[i].msg, rows[i])

\* C1: a replay run that ended with no failed send and no cancellation made
\* exactly len(T) sends, the i-th with the id, is_extended and dlc of the
\* i-th record of T.
C1_ReplaySendsWholeTrace ==
    (ReplayOver /\ ~cancelled /\ AllSendsOk) => SentWholeTrace

\* C2: a replay run in which some send failed, and which was not cancelled,
\* still attempted every record of T exactly once, in trace order.
C2_FailedSendNeverAborts ==
    (ReplayOver /\ ~cancelled /\ SomeSendFailed) => SentWholeTrace

\* What does hold of C1 and C2: a replay run that ended with no cancellation
\* and with no exception out of apply_modify_rule sent the whole trace,
\* whatever sends failed.
ReplayWholeUnlessRuleRaises ==
    (ReplayOver /\ ~cancelled /\ ~crashed) => SentWholeTrace

\* the rows of the log the scheduler wrote, in file order
SchedRows == SelectSeq(log, LAMBDA r : r.who = "sched")

\* the row carries the id and the data of the message
RowCarries(line, m) ==
    LET p == parse_csv_row(CsvReadRow(line))
    IN p.ok /\ p.id = m.id /\ p.data = m.data

BetweenSendAndRow == mainPc \in {"replay_log", "replay_writing", "gen_log", "gen_writing"}

\* C3: with a log sink, in every state the scheduler's rows are the sends it
\* attempted, one row per send in send order, each with the id and data
\* handed to the bus; only the send whose row is being written may lack its
\* row.
C3_EverySendLogged ==
    args.logOut =>
        /\ Len(SchedRows) = IF BetweenSendAndRow THEN Len(sent) - 1 ELSE Len(sent)
        /\ \A i \in 1..Len(SchedRows) : i <= Len(sent) /\ RowCarries(SchedRows[i].line, sent[i].msg)

\* C4: no thread is in a row write that it began after the log sink was
\* closed.
C4_NoWriteAfterClose ==
    /\ readerPc # "writing_closed"
    /\ ~(logClosed /\ pending["main"] # <<>>)

\* C5: the scheduler thread and the listener thread are never both inside a
\* row write.
C5_WritesMutuallyExclusive == Cardinality(InWrite) <= 1

\* the rule drawn is well-formed: it parses and its byte_index is not negative
WellFormed(r) == r.parses /\ r.byteIndex >= 0

Applied == fpc = "applied"

\* C6: for a well-formed rule, apply returns the frame it was given, equal in
\* id, is_extended, dlc and data, when the ids differ or byte_index is not
\* below len(data).
C6_NoOpOutsideRule ==
    (Applied /\ WellFormed(fin.rule)
       /\ (fin.msg.id # fin.rule.matchId \/ fin.rule.byteIndex >= Len(fin.msg.data)))
    => (~fout.raised /\ fout.msg = fin.msg)

C6_Witness ==
    /\ Applied /\ WellFormed(fin.rule)
    /\ fin.msg.id = fin.rule.matchId
    /\ Len(fin.msg.data) = 1 /\ fin.rule.byteIndex = 1
    /\ fin.rule.scale.num = 2 /\ fin.msg.data[1] = 144
    /\ fout.msg = fin.msg

\* the rule drawn matches the frame and addresses one of its bytes
RuleHits == WellFormed(fin.rule) /\ fin.msg.id = fin.rule.matchId
            /\ fin.rule.byteIndex < Len(fin.msg.data)

\* floor(b * scale) mod 256 for a finite scale
FloorScaled(b, sc) == ((b * sc.num) \div sc.den) % 256

\* apply returned a frame that differs from the given one at most in the
\* byte at byte_index, which is a byte
OnlyTargetByteChanged ==
    /\ ~fout.raised
    /\ SameHeader(fout.msg, fin.msg)
    /\ Len(fout.msg.data) = Len(fin.msg.data)
    /\ \A k \in 1..Len(fin.msg.data) :
          IF k = fin.rule.byteIndex + 1 THEN fout.msg.data[k] \in 0..255
          ELSE fout.msg.data[k] = fin.msg.data[k]

\* C7: when the rule matches and byte_index < len(data), the byte at
\* byte_index becomes floor(original * scale_factor) mod 256, a value in
\* 0..255, and id, is_extended, dlc, the length and every other byte stay.
C7_ScaledByteIsFloorMod256 ==
    (Applied /\ RuleHits) =>
        /\ OnlyTargetByteChanged
        /\ fin.rule.scale.kind = "fin" =>
               fout.msg.data[fin.rule.byteIndex + 1]
                   = FloorScaled(fin.msg.data[fin.rule.byteIndex + 1], fin.rule.scale)

\* What does hold of C7: the same for every finite scale that is not negative.
ScaledByteForNonNegativeScale ==
    (Applied /\ RuleHits /\ fin.rule.scale.kind = "fin" /\ fin.rule.scale.num >= 0) =>
        /\ OnlyTargetByteChanged
        /\ fout.msg.data[fin.rule.byteIndex + 1]
               = FloorScaled(fin.msg.data[fin.rule.byteIndex + 1], fin.rule.scale)

\* the rule strings of the session that do not parse
MalformedSessionRules == {RuleBadScale, RuleFewFields}

\* C8: with a rule string that does not parse, every message replay sends is
\* the record as read, no exception leaves replay, and a run that is not
\* cancelled attempts all len(T) records in order.
C8_MalformedRuleIsNoMutation ==
    (args.mode = "replay" /\ args.modify \in MalformedSessionRules) =>
        /\ Len(sent) <= Len(rows)
        /\ \A i \in 1..Len(sent) : sent[i].msg = RecordMsg(rows[i])
        /\ crashed => rows = <<>>
        /\ (mainPc = "done" /\ ~cancelled /\ ~crashed) => Len(sent) = Len(rows)

C8_Witness ==
    /\ ReplayOver /\ ~cancelled /\ ~crashed
    /\ args.modify = RuleBadScale
    /\ Len(sent) = 2
    /\ sent[1].msg.id = 272 /\ sent[1].msg.data = <<1, 144>>

\* the lines of the session's files that are neither blank nor comments and
\* do not parse: a bad id, a missing field, an odd number of hex digits
MalformedLines == {LineBadId, LineShort, LineOddHex}

HasMalformedRow(file) == \E i \in 1..Len(file) : file[i] \in MalformedLines

ReadIsOver == mainPc \notin {"open_log", "start_listener", "dispatch"}

\* C9: when a row of the replay input is malformed, at any position, the
\* read fails as a whole (no trace is returned, the failure leaves main) and
\* the session never sends a frame.
C9_MalformedRowFailsRead ==
    (args.mode = "replay" /\ HasMalformedRow(args.file)) =>
        /\ sent = <<>>
        /\ rows = <<>>
        /\ (ReadIsOver /\ ~cancelled) => crashed

C9_Witness ==
    /\ ReplayOver /\ crashed
    /\ Len(args.file) = 3
    /\ args.file[1] = LineA /\ args.file[2] \in MalformedLines /\ args.file[3] = LineC
    /\ sent = <<>>

\* C10: the row written for a frame, read back by csv.reader and
\* parse_csv_row, gives the frame's id, is_extended, dlc and data bytes.
C10_RowRoundTrip ==
    fpc = "read" =>
        /\ fout.ok
        /\ fout.id = fin.msg.id /\ fout.ext = fin.msg.ext
        /\ fout.dlc = fin.msg.dlc /\ fout.data = fin.msg.data

C10_Witness ==
    /\ fpc = "read" /\ fout.ok
    /\ fin.msg.id = 536870911 /\ fin.msg.ext /\ fin.msg.dlc = 8
    /\ Len(fin.msg.data) = 8
    /\ fout.id = fin.msg.id /\ fout.data = fin.msg.data

\* C11: once the interrupt has been delivered no step adds a bus send,
\* whether it arrived before a send, between send and log row, or in the
\* sleep of the generator or of replay.
C11_NoSendAfterCancel == [][cancelled => sent' = sent]_vars

\* a generator that was interrupted after its first send, at the end of the run
C11_Witness ==
    /\ args.mode = "gen" /\ cancelled /\ mainPc = "done"
    /\ Len(sent) = 1 /\ sent[1].msg.id = 272

\* C12: in a generator session no exception leaves the send loop, and a
\* failed send that is not the last one followed is, unless the interrupt
\* comes, followed by another send of the same id and data.
C12_FailedSendIsFollowed ==
    /\ []((args.mode = "gen" /\ crashed) => sent = <<>>)
    /\ \A n \in 1..(MaxGenSends - 1) :
          (args.mode = "gen" /\ Len(sent) = n /\ ~sent[n].ok)
              ~> (cancelled \/ (Len(sent) > n /\ sent[n + 1].msg = sent[n].msg))

\* a generator with a log that sent again after its first send failed
C12_Witness ==
    /\ args.mode = "gen" /\ args.logOut /\ ~cancelled
    /\ Len(sent) = 2 /\ ~sent[1].ok /\ sent[2].msg = sent[1].msg
    /\ Len(SchedRows) = 2

\* the rows of the log the listener wrote, in file order
ListenerRows == SelectSeq(log, LAMBDA r : r.who = "listener")

\* the scheduler is in its send loop: the session has not begun to shut down
SchedulerRunning ==
    mainPc \in {"replay_wait", "replay_sleep", "replay_send", "replay_log", "replay_writing",
                "gen_send", "gen_log", "gen_writing", "gen_sleep"}

\* C13: with a log sink, the n-th frame the notifier hands to the listener
\* while the scheduler is running eventually has its row in the log.
C13_DeliveredFrameIsLogged ==
    \A n \in 1..MaxRx :
        (args.logOut /\ SchedulerRunning /\ rxCount = n) ~> (Len(ListenerRows) >= n)

\* the clock has reached anchor_wall_time + (T[i].timestamp - T[0].timestamp)
DeadlineReached(i) ==
    LET ts == rows[i].ts
        s0 == rows[1].ts
    IN (now - t0) * ts.den * s0.den >= ts.num * s0.den - s0.num * ts.den

\* w is anchor_wall_time + (T[i].timestamp - T[0].timestamp)
IsDeadline(w, i) ==
    LET ts == rows[i].ts
        s0 == rows[1].ts
    IN w.num * ts.den * s0.den
           = (t0 * ts.den * s0.den + ts.num * s0.den - s0.num * ts.den) * w.den

InReplayLoop(pc) ==
    pc \in {"replay_wait", "replay_sleep", "replay_send", "replay_log", "replay_writing"}

\* C14: in replay, a send of record i is made only when the clock has
\* reached the deadline of record i; a record whose deadline is reached is
\* not slept for; the wall-time anchor is not changed inside the loop; and a
\* sleep ends at the deadline computed from the two anchors and the
\* record's own timestamp.
C14_ReplayTimingAnchored ==
    [][ /\ (args.mode = "replay" /\ Len(sent') > Len(sent)) => DeadlineReached(idx)
        /\ (mainPc = "replay_wait" /\ DeadlineReached(idx)) => mainPc' # "replay_sleep"
        /\ (InReplayLoop(mainPc) /\ InReplayLoop(mainPc')) => t0' = t0
        /\ (mainPc' = "replay_sleep") => IsDeadline(wake', idx')
      ]_vars

\* the second record, one second after the first, is about to be sent one
\* second after an anchor taken when the clock had already advanced
C14_Witness ==
    /\ mainPc = "replay_send" /\ idx = 2
    /\ rows[1].ts.num = 0 /\ rows[2].ts.num = rows[2].ts.den
    /\ t0 = 1 /\ now = 2 /\ Len(sent) = 1

\* C15: when main has run its finally block to the end, the reader thread
\* has left its receive loop.
C15_ReaderLeftItsLoop == mainPc = "done" => readerPc \in {"off", "dead"}

\* C16: after apply has returned, the frame object it was given still has
\* the data bytes (and id, is_extended, dlc) it had before the call.
C16_ApplyLeavesItsArgument == Applied => fout.arg = fin.msg

AppliedTwice == fpc = "applied_twice"

ScaleIs(n, d) ==
    fin.rule.scale.kind = "fin" /\ fin.rule.scale.num = n /\ fin.rule.scale.den = d

\* C19: a matching rule with scale 0.5 on a target byte 0x80 gives 0x40 and,
\* applied again to that result, 0x20; a well-formed rule with scale 1.0
\* returns every frame as given, and applied again returns it once more.
C19_RepeatedApplyRescales ==
    /\ (~(fpc = "apply") /\ WellFormed(fin.rule) /\ (ScaleIs(1, 1) \/ (ScaleIs(1, 2) /\ RuleHits)))
           => ~fout.raised
    /\ (AppliedTwice /\ RuleHits /\ ScaleIs(1, 2)
           /\ fin.msg.data[fin.rule.byteIndex + 1] = 128)
           => /\ fout.first.data[fin.rule.byteIndex + 1] = 64
              /\ fout.msg.data[fin.rule.byteIndex + 1] = 32
    /\ (AppliedTwice /\ WellFormed(fin.rule) /\ ScaleIs(1, 1))
           => /\ fout.first = fin.msg
              /\ fout.msg = fout.first

\* scale 0.5 applied twice to the second byte, 0x80, of a two-byte frame
C19_Witness ==
    /\ AppliedTwice /\ RuleHits /\ ScaleIs(1, 2)
    /\ fin.rule.byteIndex = 1 /\ fin.msg.data = <<255, 128>>
    /\ fout.first.data = <<255, 64>> /\ fout.msg.data = <<255, 32>>

\* a log the program wrote: the header row of line 166, then the row of a frame
LogAsTrace == <<LineHeader, LineA>>

\* C17: a replay input that starts with the header row the program writes is
\* read without error, and the trace is its data rows in order.
C17_HeaderRowIsSkipped ==
    (args.mode = "replay" /\ args.file = LogAsTrace /\ ReadIsOver /\ ~cancelled)
        => /\ ~crashed
           /\ mainPc = "replay_start" => (Len(rows) = 1 /\ rows[1] = parse_csv_row(CsvReadRow(LineA)))

\* generator specs with no id field, a label with no value, a value that
\* does not parse
MalformedGens == {GenNoId, GenNoValue, GenNoFreq, GenBadValue}

\* C18: with a malformed generator spec no exception leaves generator_mode
\* and no frame is sent.
C18_MalformedGenSpecIsSkipped ==
    (args.mode = "gen" /\ args.gen \in MalformedGens) => (~crashed /\ sent = <<>>)

\* C20: the trace replay starts with is the trace read from the file, and no
\* step of the session changes it: every record keeps its timestamp, id,
\* is_extended, dlc and data, whatever rule is applied to the messages and
\* whatever sends fail.
C20_TraceIsNeverModified ==
    /\ [](mainPc = "replay_start" => rows = read_replay_csv(args.file).rows)
    /\ [][(args.mode = "replay" /\ rows # <<>>) => rows' = rows]_vars

\* a replay that ended after a send of a scaled frame and a failed send
C20_Witness ==
    /\ ReplayOver /\ ~cancelled /\ ~crashed /\ args.modify = RuleHalf
    /\ Len(sent) = 2 /\ SomeSendFailed
    /\ sent[1].msg.data = <<0, 144>> /\ rows[1].data = <<1, 144>>

====
